---- MODULE Spec2Model ----
(***************************************************************************)
(* The OAuth plumbing of emailcat's backend: the identity-provider login   *)
(* (api/v1/auth.py), the mail-link handshake and the message listing       *)
(* (api/v1/email.py), the token verifier (core/auth.py) and the provider   *)
(* bindings (api/v1/emails.py).  The server keeps no state; the only state *)
(* that survives a request is each client's cookie jar, which the          *)
(* responses' Set-Cookie headers update and the cookies' deadlines empty.  *)
(*                                                                         *)
(* A Python str is a sequence of atoms.  The atom Bearer stands for the    *)
(* seven characters "Bearer "; every other atom is text that does not      *)
(* contain them.  Python's None is the one-atom sequence NoneVal, which no *)
(* request value equals.                                                   *)
(***************************************************************************)
EXTENDS Integers, Sequences, FiniteSets, TLC

VARIABLES
    jar,     \* jar[c][n]: the value of cookie n held by client c, NoneVal if absent
    issued,  \* how many state values secrets.token_urlsafe has produced
    req,     \* the request handled last: its parameters, cookies and upstream answer
    resp,    \* the response to it
    settings,\* the configuration the server was started with
    ttl,     \* ttl[c][n]: the seconds cookie n of client c has left, 0 if it has no
             \* deadline, Expired if its deadline removed it
    owner    \* owner[k]: the client whose gmail_auth was answered with the k-th state value

vars == <<jar, issued, req, resp, settings, ttl, owner>>

\* The number of mail-link handshakes that are started in one behaviour.
MaxIssued == 2

\* The messages one listing names, at most.
MaxMessages == 2

\* The steps of the clock in one cookie lifetime.
TicksPerLifetime == 2

Clients == {"c1", "c2"}

CookieNames == {"oauth_state", "auth0_token", "redirect_after_login"}

NoneVal == <<"None">>

Bearer == "Bearer "

\* Python truthiness of an Optional[str]: neither None nor "".
Truthy(x) == x # NoneVal /\ x # <<>>

Range(s) == {s[i] : i \in DOMAIN s}

NoCookies == [n \in {} |-> NoneVal]

NoCookieJar == [n \in CookieNames |-> NoneVal]

\* The n-th value of secrets.token_urlsafe(32): values of different calls differ.
token_urlsafe(n) == <<"state", ToString(n)>>

(***************************************************************************)
(* Responses.  status 307 is RedirectResponse's default status.            *)
(***************************************************************************)
JSONResponse(status, body, trace) ==
    [status |-> status, kind |-> "json", body |-> body, location |-> NoneVal,
     set_cookies |-> NoCookies, del_cookies |-> {}, trace |-> trace,
     max_age |-> NoCookies]

RedirectResponse(url, set_cookies, del_cookies, trace) ==
    [status |-> 307, kind |-> "redirect", body |-> <<>>, location |-> url,
     set_cookies |-> set_cookies, del_cookies |-> del_cookies, trace |-> trace,
     max_age |-> NoCookies]

\* An exception leaving a try block: no response yet.
Raised(exc, detail, trace) ==
    [status |-> 0, kind |-> exc, body |-> detail, location |-> NoneVal,
     set_cookies |-> NoCookies, del_cookies |-> {}, trace |-> trace,
     max_age |-> NoCookies]

\* raise HTTPException(status_code, detail) as it leaves the handler.
HTTPException(status, detail, trace) ==
    JSONResponse(status, <<"detail">> \o detail, trace)

IsException(r) == r.status = 0

\* max_age=600 of the set_cookie calls, auth.py line 37, email.py lines 105, 113.
TenMinutes == 600

\* The lifetime of a cookie that its deadline has removed from the jar.
Expired == -1

\* The response r, its set_cookie calls passing the max_age given per cookie.
WithMaxAge(r, max_age) == [r EXCEPT !.max_age = max_age]

\* The seconds the browser gives each cookie after the response r: a cookie
\* set with max_age has that long, one set without it or deleted has no deadline.
ApplyMaxAge(seconds, r) ==
    [n \in CookieNames |->
        IF n \in r.del_cookies THEN 0
        ELSE IF n \in DOMAIN r.set_cookies
        THEN IF n \in DOMAIN r.max_age THEN r.max_age[n] ELSE 0
        ELSE seconds[n]]

\* What the client's browser does with the response's Set-Cookie headers.
ApplyCookies(cookies, r) ==
    [n \in CookieNames |->
        IF n \in r.del_cookies THEN NoneVal
        ELSE IF n \in DOMAIN r.set_cookies THEN r.set_cookies[n]
        ELSE cookies[n]]

(***************************************************************************)
(* auth.py: login                                                          *)
(***************************************************************************)
AuthorizeUrl == <<"https://AUTH0_DOMAIN/authorize?response_type=code">>

\* login with the cookie set on a response that is not the one returned.
login_cookie_lost(redirect_after_login) ==
    RedirectResponse(AuthorizeUrl, NoCookies, {}, <<>>)

\* login setting a session cookie: set_cookie without max_age.
login_session_cookie(redirect_after_login) ==
    IF Truthy(redirect_after_login)
    THEN RedirectResponse(AuthorizeUrl,
                          [redirect_after_login |-> redirect_after_login], {},
                          <<>>)
    ELSE RedirectResponse(AuthorizeUrl, NoCookies, {}, <<>>)

login(redirect_after_login) ==
    IF Truthy(redirect_after_login)
    THEN WithMaxAge(
             RedirectResponse(AuthorizeUrl,
                              [redirect_after_login |-> redirect_after_login], {},
                              <<>>),
             [redirect_after_login |-> TenMinutes])
    ELSE RedirectResponse(AuthorizeUrl, NoCookies, {}, <<>>)

(***************************************************************************)
(* auth.py: logout                                                         *)
(***************************************************************************)
LogoutUrl == <<"https://AUTH0_DOMAIN/v2/logout?returnTo=http://localhost:8000">>

\* Lines 93-98: a redirect that sets and deletes no cookie.
logout == RedirectResponse(LogoutUrl, NoCookies, {}, <<>>)

(***************************************************************************)
(* auth.py: auth_callback.  up is the identity provider's answer to the    *)
(* POST to /oauth/token: a transport exception, or a response with a       *)
(* status, a body that is JSON or not, and the payload's access_token      *)
(* (NoneVal when the payload has no such key).                             *)
(***************************************************************************)
IdpAnswer(exception, status, json, access_token) ==
    [exception |-> exception, status |-> status, json |-> json,
     access_token |-> access_token]

NoAnswer == IdpAnswer(FALSE, 0, FALSE, NoneVal)

\* token_data as a response body.
TokenPayload(up) == <<"token_data">> \o up.access_token

AccessTokenParam == "?access_token="

\* auth_callback_try without line 81: the redirect leaves the cookie in place.
auth_callback_try_keeps_cookie(cookies, up) ==
    LET trace == <<"client.post">>
        redirect_after_login == cookies["redirect_after_login"]
    IN  IF up.exception
        THEN Raised("TransportError", <<>>, trace)
        ELSE IF up.status # 200
        THEN Raised("HTTPException", <<"Failed to exchange code for token">>, trace)
        ELSE IF ~up.json
        THEN Raised("JSONDecodeError", <<>>, trace)
        ELSE IF Truthy(redirect_after_login)
        THEN IF up.access_token = NoneVal
             THEN Raised("KeyError", <<"access_token">>, trace)
             ELSE RedirectResponse(
                      redirect_after_login \o <<AccessTokenParam>> \o up.access_token,
                      NoCookies, {}, trace)
        ELSE JSONResponse(200, TokenPayload(up), trace)

\* The body of the try block, lines 49-84.
auth_callback_try(cookies, up) ==
    LET trace == <<"client.post">>
        redirect_after_login == cookies["redirect_after_login"]
    IN  IF up.exception
        THEN Raised("TransportError", <<>>, trace)
        ELSE IF up.status # 200
        THEN Raised("HTTPException", <<"Failed to exchange code for token">>, trace)
        ELSE IF ~up.json
        THEN Raised("JSONDecodeError", <<>>, trace)
        ELSE IF Truthy(redirect_after_login)
        THEN IF up.access_token = NoneVal
             THEN Raised("KeyError", <<"access_token">>, trace)
             ELSE RedirectResponse(
                      redirect_after_login \o <<AccessTokenParam>> \o up.access_token,
                      NoCookies, {"redirect_after_login"}, trace)
        ELSE JSONResponse(200, TokenPayload(up), trace)

\* auth_callback_except answering 500 for what is not an HTTPException.
auth_callback_except_500(r) ==
    IF r.kind = "HTTPException"
    THEN HTTPException(400, r.body, r.trace)
    ELSE HTTPException(500, <<"Internal Server Error">>, r.trace)

\* auth_callback_except deleting the redirect target of the login that failed.
auth_callback_except_clears(r) ==
    [HTTPException(400, <<"Failed to authenticate with Auth0">>, r.trace)
        EXCEPT !.del_cookies = {"redirect_after_login"}]

\* except Exception, lines 86-91: the HTTPException raised at line 68 is caught too.
auth_callback_except(r) ==
    HTTPException(400, <<"Failed to authenticate with Auth0">>, r.trace)

auth_callback(cookies, up) ==
    LET r == auth_callback_try(cookies, up)
    IN  IF IsException(r) THEN auth_callback_except(r) ELSE r

(***************************************************************************)
(* email.py: gmail_auth                                                    *)
(***************************************************************************)
startswith(s, prefix) == Len(s) > 0 /\ s[1] = prefix

\* str.replace(old, ""): every occurrence of old is removed.
replace(s, old) == SelectSeq(s, LAMBDA a : a # old)

\* Line 66.
bearer_token(authorization) ==
    IF startswith(authorization, Bearer)
    THEN replace(authorization, Bearer)
    ELSE authorization

\* Lines 64-72: the if/elif chain over the four token sources.
auth_token(authorization, token, access_token, cookies) ==
    IF Truthy(authorization) THEN bearer_token(authorization)
    ELSE IF Truthy(token) THEN token
    ELSE IF Truthy(access_token) THEN access_token
    ELSE IF Truthy(cookies["auth0_token"]) THEN cookies["auth0_token"]
    ELSE NoneVal

GoogleAuthUrl == "https://accounts.google.com/o/oauth2/auth?access_type=offline&prompt=consent&state="

\* gmail_auth without the check of lines 74-79.
gmail_auth_unchecked(authorization, token, access_token, cookies, state) ==
    RedirectResponse(
        <<GoogleAuthUrl>> \o state,
        [oauth_state |-> state,
         auth0_token |-> auth_token(authorization, token, access_token, cookies)],
        {},
        <<"create_flow", "secrets.token_urlsafe", "flow.authorization_url">>)

\* gmail_auth keeping the state of a handshake that is already under way.
gmail_auth_reuses_state(authorization, token, access_token, cookies, state) ==
    LET t == auth_token(authorization, token, access_token, cookies)
        s == IF Truthy(cookies["oauth_state"]) THEN cookies["oauth_state"] ELSE state
    IN  IF ~Truthy(t)
        THEN JSONResponse(401, <<"error", "No authorization token provided">>, <<>>)
        ELSE RedirectResponse(
                 <<GoogleAuthUrl>> \o s,
                 [oauth_state |-> s, auth0_token |-> t], {},
                 <<"create_flow", "secrets.token_urlsafe", "flow.authorization_url">>)

\* gmail_auth asking the Token Verifier first, the identity provider
\* accepting no token but "a".
gmail_auth_verifies(authorization, token, access_token, cookies, state) ==
    LET t == auth_token(authorization, token, access_token, cookies)
    IN  IF ~Truthy(t)
        THEN JSONResponse(401, <<"error", "No authorization token provided">>, <<>>)
        ELSE IF t # <<"a">>
        THEN HTTPException(401, <<"Could not validate credentials">>, <<"userinfo">>)
        ELSE WithMaxAge(
                 RedirectResponse(
                     <<GoogleAuthUrl>> \o state,
                     [oauth_state |-> state, auth0_token |-> t], {},
                     <<"userinfo", "create_flow", "secrets.token_urlsafe",
                       "flow.authorization_url">>),
                 [oauth_state |-> TenMinutes, auth0_token |-> TenMinutes])

\* Lines 62-116; state is the value secrets.token_urlsafe returns if it is called.
gmail_auth(authorization, token, access_token, cookies, state) ==
    LET t == auth_token(authorization, token, access_token, cookies)
    IN  IF ~Truthy(t)
        THEN JSONResponse(401, <<"error", "No authorization token provided">>, <<>>)
        ELSE WithMaxAge(
                 RedirectResponse(
                     <<GoogleAuthUrl>> \o state,
                     [oauth_state |-> state, auth0_token |-> t], {},
                     <<"create_flow", "secrets.token_urlsafe", "flow.authorization_url">>),
                 [oauth_state |-> TenMinutes, auth0_token |-> TenMinutes])

(***************************************************************************)
(* email.py: gmail_callback.  fetch is what flow.fetch_token does with the *)
(* code: "ok" (the mail provider issued credentials) or "raise".           *)
(***************************************************************************)
\* verify_state without the comparison of line 240.
verify_state_presence_only(state, cookie_state) ==
    IF ~Truthy(state) \/ ~Truthy(cookie_state) THEN "Missing state parameter"
    ELSE "ok"

\* Lines 228-245: the verdict on the callback's state against the cookie's.
verify_state(state, cookie_state) ==
    IF ~Truthy(state) \/ ~Truthy(cookie_state) THEN "Missing state parameter"
    ELSE IF state # cookie_state THEN "Invalid state parameter"
    ELSE "ok"

\* response_data, lines 262-268, as the page that carries it.
CredentialBundle == <<"html", "response_data">>

\* gmail_callback_try with the token exchange moved before the state check.
gmail_callback_try_exchange_first(state, error, cookies, fetch) ==
    LET verdict == verify_state(state, cookies["oauth_state"])
    IN  IF Truthy(error)
        THEN JSONResponse(400, <<"error", "OAuth error">>, <<"error">>)
        ELSE IF fetch # "ok"
        THEN Raised("Exception", <<>>, <<"error", "create_flow", "flow.fetch_token">>)
        ELSE IF verdict # "ok"
        THEN JSONResponse(400, <<"error", verdict>>,
                          <<"error", "create_flow", "flow.fetch_token", "verify_state">>)
        ELSE IF ~Truthy(cookies["auth0_token"])
        THEN JSONResponse(401, <<"error", "No Auth0 token found">>,
                          <<"error", "create_flow", "flow.fetch_token", "verify_state",
                            "auth0_token">>)
        ELSE [status |-> 200, kind |-> "html", body |-> CredentialBundle,
              location |-> NoneVal, max_age |-> NoCookies,
              set_cookies |-> NoCookies,
              del_cookies |-> {"oauth_state", "auth0_token"},
              trace |-> <<"error", "create_flow", "flow.fetch_token", "verify_state",
                          "auth0_token">>]

\* gmail_callback_try with the state check moved before the error check.
gmail_callback_try_state_first(state, error, cookies, fetch) ==
    LET verdict == verify_state(state, cookies["oauth_state"])
    IN  IF verdict # "ok"
        THEN JSONResponse(400, <<"error", verdict>>, <<"verify_state">>)
        ELSE IF Truthy(error)
        THEN JSONResponse(400, <<"error", "OAuth error">>, <<"verify_state", "error">>)
        ELSE IF ~Truthy(cookies["auth0_token"])
        THEN JSONResponse(401, <<"error", "No Auth0 token found">>,
                          <<"verify_state", "error", "auth0_token">>)
        ELSE IF fetch # "ok"
        THEN Raised("Exception", <<>>,
                    <<"verify_state", "error", "auth0_token", "create_flow",
                      "flow.fetch_token">>)
        ELSE [status |-> 200, kind |-> "html", body |-> CredentialBundle,
              location |-> NoneVal, max_age |-> NoCookies,
              set_cookies |-> NoCookies,
              del_cookies |-> {"oauth_state", "auth0_token"},
              trace |-> <<"verify_state", "error", "auth0_token", "create_flow",
                          "flow.fetch_token">>]

\* gmail_callback_try without the check of lines 247-254.
gmail_callback_try_no_identity(state, error, cookies, fetch) ==
    LET verdict == verify_state(state, cookies["oauth_state"])
    IN  IF Truthy(error)
        THEN JSONResponse(400, <<"error", "OAuth error">>, <<"error">>)
        ELSE IF verdict # "ok"
        THEN JSONResponse(400, <<"error", verdict>>, <<"error", "verify_state">>)
        ELSE IF fetch # "ok"
        THEN Raised("Exception", <<>>,
                    <<"error", "verify_state", "create_flow", "flow.fetch_token">>)
        ELSE [status |-> 200, kind |-> "html", body |-> CredentialBundle,
              location |-> NoneVal, max_age |-> NoCookies,
              set_cookies |-> NoCookies,
              del_cookies |-> {"oauth_state", "auth0_token"},
              trace |-> <<"error", "verify_state", "create_flow", "flow.fetch_token">>]

\* gmail_callback_try keeping the credential bundle for the client's later
\* requests, in the auth0_token cookie.
gmail_callback_try_keeps_bundle(state, error, cookies, fetch) ==
    LET verdict == verify_state(state, cookies["oauth_state"])
    IN  IF Truthy(error)
        THEN JSONResponse(400, <<"error", "OAuth error">>, <<"error">>)
        ELSE IF verdict # "ok"
        THEN JSONResponse(400, <<"error", verdict>>, <<"error", "verify_state">>)
        ELSE IF ~Truthy(cookies["auth0_token"])
        THEN JSONResponse(401, <<"error", "No Auth0 token found">>,
                          <<"error", "verify_state", "auth0_token">>)
        ELSE IF fetch # "ok"
        THEN Raised("Exception", <<>>,
                    <<"error", "verify_state", "auth0_token", "create_flow", "flow.fetch_token">>)
        ELSE [status |-> 200, kind |-> "html", body |-> CredentialBundle,
              location |-> NoneVal,
              max_age |-> NoCookies,
              set_cookies |-> [n \in {"auth0_token"} |-> CredentialBundle],
              del_cookies |-> {"oauth_state"},
              trace |-> <<"error", "verify_state", "auth0_token", "create_flow", "flow.fetch_token">>]

\* The body of the try block, lines 215-425.
gmail_callback_try(state, error, cookies, fetch) ==
    LET verdict == verify_state(state, cookies["oauth_state"])
    IN  IF Truthy(error)
        THEN JSONResponse(400, <<"error", "OAuth error">>, <<"error">>)
        ELSE IF verdict # "ok"
        THEN JSONResponse(400, <<"error", verdict>>, <<"error", "verify_state">>)
        ELSE IF ~Truthy(cookies["auth0_token"])
        THEN JSONResponse(401, <<"error", "No Auth0 token found">>,
                          <<"error", "verify_state", "auth0_token">>)
        ELSE IF fetch # "ok"
        THEN Raised("Exception", <<>>,
                    <<"error", "verify_state", "auth0_token", "create_flow", "flow.fetch_token">>)
        ELSE [status |-> 200, kind |-> "html", body |-> CredentialBundle,
              location |-> NoneVal, max_age |-> NoCookies,
              set_cookies |-> NoCookies,
              del_cookies |-> {"oauth_state", "auth0_token"},
              trace |-> <<"error", "verify_state", "auth0_token", "create_flow", "flow.fetch_token">>]

\* gmail_callback_except letting the exception reach the framework.
gmail_callback_except_500(r) ==
    JSONResponse(500, <<"Internal Server Error">>, r.trace)

\* except Exception, lines 427-435.
gmail_callback_except(r) ==
    JSONResponse(400, <<"error", "Failed to complete Gmail authentication">>, r.trace)

gmail_callback(state, error, cookies, fetch) ==
    LET r == gmail_callback_try(state, error, cookies, fetch)
    IN  IF IsException(r) THEN gmail_callback_except(r) ELSE r

(***************************************************************************)
(* email.py: list_messages.  The request body is None (no body, or JSON    *)
(* null) or a dict, given by its keys and by the value under "credentials".*)
(* gmail is what the mail provider's client library does: whether build    *)
(* and messages.list succeed, how many messages the listing names, and     *)
(* which messages.get raises (fail_at, 0 for none) with which exception.   *)
(* call that raises.                                                       *)
(***************************************************************************)
Dict(none, keys, credentials) ==
    [none |-> none, keys |-> keys, credentials |-> credentials]

NoBody == Dict(TRUE, {}, NoneVal)

\* not credentials, line 135: None and the empty dict are falsy.
DictFalsy(d) == d.none \/ d.keys = {}

\* credentials.get('credentials'), line 142.
DictGet(d) == IF "credentials" \in d.keys THEN d.credentials ELSE NoneVal

\* The answer of the mail provider's client library to one request.
GmailAnswer(build, list, n, fail_at, fail_kind) ==
    [build |-> build, list |-> list, n |-> n, fail_at |-> fail_at,
     fail_kind |-> fail_kind]

\* The provider was not asked.
NotAsked == GmailAnswer("none", "none", 0, 0, "none")

\* The dict returned at lines 186-190, detailed_messages holding n messages.
MessageList(n) ==
    <<"messages">> \o [i \in 1..n |-> ToString(i)]
        \o <<"nextPageToken", "resultSizeEstimate">>

\* The calls of the loop at lines 163-169 for the first k messages.
MessagesGet(k) == [i \in 1..k |-> "messages.get"]

\* list_messages_try leaving out a message whose fetch fails and returning
\* the messages fetched before it.
list_messages_try_skips_failed(credentials, gmail) ==
    IF DictFalsy(credentials)
    THEN Raised("HTTPException", <<"401", "Gmail credentials not provided">>, <<>>)
    ELSE IF ~Truthy(DictGet(credentials))
    THEN Raised("HTTPException", <<"401", "Gmail credentials not found in request">>, <<>>)
    ELSE IF gmail.build # "ok"
    THEN Raised("HTTPException", <<"500", "Failed to create Gmail service">>,
                <<"build">>)
    ELSE IF gmail.list # "ok"
    THEN Raised(gmail.list, <<>>, <<"build", "messages.list">>)
    ELSE IF gmail.fail_at # 0
    THEN JSONResponse(200, MessageList(gmail.fail_at - 1),
                      <<"build", "messages.list">> \o MessagesGet(gmail.fail_at))
    ELSE JSONResponse(200, MessageList(gmail.n),
                      <<"build", "messages.list">> \o MessagesGet(gmail.n))

\* The body of the try block, lines 135-190, with get_gmail_service (437-455).
list_messages_try(credentials, gmail) ==
    IF DictFalsy(credentials)
    THEN Raised("HTTPException", <<"401", "Gmail credentials not provided">>, <<>>)
    ELSE IF ~Truthy(DictGet(credentials))
    THEN Raised("HTTPException", <<"401", "Gmail credentials not found in request">>, <<>>)
    ELSE IF gmail.build # "ok"
    THEN Raised("HTTPException", <<"500", "Failed to create Gmail service">>,
                <<"build">>)
    ELSE IF gmail.list # "ok"
    THEN Raised(gmail.list, <<>>, <<"build", "messages.list">>)
    ELSE IF gmail.fail_at # 0
    THEN Raised(gmail.fail_kind, <<>>,
                <<"build", "messages.list">> \o MessagesGet(gmail.fail_at))
    ELSE JSONResponse(200, MessageList(gmail.n),
                      <<"build", "messages.list">> \o MessagesGet(gmail.n))

\* The except clauses, lines 192-203: HttpError is googleapiclient's; every
\* other exception, fastapi's HTTPException among them, reaches the second.
list_messages_except(r) ==
    IF r.kind = "HttpError"
    THEN HTTPException(400, <<"Gmail API error">>, r.trace)
    ELSE HTTPException(500, <<"Failed to list Gmail messages">> \o r.body, r.trace)

list_messages(credentials, gmail) ==
    LET r == list_messages_try(credentials, gmail)
    IN  IF IsException(r) THEN list_messages_except(r) ELSE r

(***************************************************************************)
(* core/auth.py: get_current_user, and the route /auth/me that depends on  *)
(* it.  token is the bearer token HTTPBearer extracted; up is the answer   *)
(* of the identity provider's userinfo endpoint.                           *)
(***************************************************************************)
\* The domain that line 24 takes for a development configuration.
PlaceholderDomain == "your-tenant.auth0.com"

MockUser == <<"mock-user-id", "test@example.com", "Test User">>

\* exception: the GET raised; json: the body parses; sub: the payload has "sub".
UserinfoAnswer(exception, status, json, sub) ==
    [exception |-> exception, status |-> status, json |-> json, sub |-> sub]

NoUserinfo == UserinfoAnswer(FALSE, 0, FALSE, FALSE)

\* response.json(), line 45, for the user the token belongs to.
UserinfoPayload(token, up) ==
    IF up.sub THEN <<"sub">> \o token ELSE <<"email">> \o token

\* get_current_user_try returning whatever the endpoint sent, status unchecked.
get_current_user_try_unchecked(token, AUTH0_DOMAIN, up) ==
    IF AUTH0_DOMAIN = PlaceholderDomain
    THEN JSONResponse(200, MockUser, <<>>)
    ELSE IF up.exception
    THEN Raised("Exception", <<>>, <<"userinfo">>)
    ELSE IF ~up.json
    THEN Raised("JSONDecodeError", <<>>, <<"userinfo">>)
    ELSE JSONResponse(200, UserinfoPayload(token, up), <<"userinfo">>)

\* The body of the try block, lines 21-45; status 200 stands for a return.
get_current_user_try(token, AUTH0_DOMAIN, up) ==
    IF AUTH0_DOMAIN = PlaceholderDomain
    THEN JSONResponse(200, MockUser, <<>>)
    ELSE IF up.exception
    THEN Raised("Exception", <<>>, <<"userinfo">>)
    ELSE IF up.status # 200
    THEN Raised("HTTPException", <<"401", "Could not validate credentials">>,
                <<"userinfo">>)
    ELSE IF ~up.json
    THEN Raised("JSONDecodeError", <<>>, <<"userinfo">>)
    ELSE JSONResponse(200, UserinfoPayload(token, up), <<"userinfo">>)

\* The except clauses, lines 47-58: JWTError answers with the exception's
\* text, everything else with the fixed detail.
get_current_user_except(r) ==
    IF r.kind = "JWTError"
    THEN HTTPException(401, r.body, r.trace)
    ELSE HTTPException(401, <<"Could not validate credentials">>, r.trace)

get_current_user(token, AUTH0_DOMAIN, up) ==
    LET r == get_current_user_try(token, AUTH0_DOMAIN, up)
    IN  IF IsException(r) THEN get_current_user_except(r) ELSE r

\* The dependency produced an identity.
Identified(current_user) == current_user.status = 200

\* auth.py lines 14-21: current_user["sub"] raises KeyError, which the
\* framework answers 500, when the identity has no "sub".
get_current_user_info(token, AUTH0_DOMAIN, up) ==
    LET current_user == get_current_user(token, AUTH0_DOMAIN, up)
    IN  IF ~Identified(current_user)
        THEN current_user
        ELSE IF current_user.body # MockUser /\ current_user.body[1] # "sub"
        THEN JSONResponse(500, <<"Internal Server Error">>,
                          current_user.trace \o <<"current_user">>)
        ELSE JSONResponse(200, <<"id">> \o current_user.body,
                          current_user.trace \o <<"current_user">>)

(***************************************************************************)
(* emails.py: get_email_service and the three routes that call it, with    *)
(* the bindings of services/email_service.py.  A route runs after its      *)
(* dependency get_current_user; current_user is what that produced.        *)
(***************************************************************************)
\* The binding get_email_service constructs and returns, as a value; the
\* trace names the call and the constructor.
Binding(service) ==
    JSONResponse(200, <<service>>, <<"get_email_service", service>>)

\* get_email_service falling back to Gmail for a name it does not know.
get_email_service_defaults_to_gmail(provider) ==
    IF provider = "outlook" THEN Binding("OutlookService")
    ELSE Binding("GmailService")

\* Lines 15-21.  The HTTPException of line 21 leaves the route, which has no
\* try block, and is answered by the framework with its status and detail.
get_email_service(provider) ==
    IF provider = "gmail" THEN Binding("GmailService")
    ELSE IF provider = "outlook" THEN Binding("OutlookService")
    ELSE HTTPException(400, <<"Unsupported email provider">>,
                       <<"get_email_service">>)

\* What the bindings return, email_service.py lines 25-35 and 42-52: both
\* answer alike, a fixed list for get_unread_emails and True for the others.
ServiceResult(operation) ==
    IF operation = "get_unread_emails" THEN <<"Test Email">> ELSE <<"True">>

\* The pattern the three routes share: the binding is chosen first (lines 29,
\* 39, 57), then current_user["sub"] is evaluated, which raises KeyError for
\* an identity without "sub", then the binding's operation is awaited.  The
\* bindings never return False, so lines 46-47 and 59-60 are not entered.
EmailRoute(operation, provider, current_user, message) ==
    IF ~Identified(current_user) THEN current_user
    ELSE LET service == get_email_service(provider)
             trace == current_user.trace \o <<"current_user">> \o service.trace
         IN  IF service.status # 200
             THEN [service EXCEPT !.trace = trace]
             ELSE IF current_user.body # MockUser /\ current_user.body[1] # "sub"
             THEN JSONResponse(500, <<"Internal Server Error">>, trace)
             ELSE JSONResponse(200,
                               IF operation = "get_unread_emails"
                               THEN ServiceResult(operation) ELSE message,
                               trace \o <<operation>>)

\* Lines 23-30.
get_unread_emails(provider, current_user) ==
    EmailRoute("get_unread_emails", provider, current_user, <<>>)

\* Lines 32-48.
send_email(provider, current_user) ==
    EmailRoute("send_email", provider, current_user,
               <<"message", "Email sent successfully">>)

\* Lines 50-61.
mark_email_as_read(provider, current_user) ==
    EmailRoute("mark_as_read", provider, current_user,
               <<"message", "Email marked as read successfully">>)

(***************************************************************************)
(* email.py: gmail_connect, and the URLs that chain it to login,           *)
(* auth_callback and gmail_auth.  A URL is the base, the path atoms and,   *)
(* after an atom that names a query parameter, the parameter's value.      *)
(***************************************************************************)
\* request.base_url of a server reached at the address login's redirect_uri
\* names, auth.py line 28.
BaseUrl == <<"http://localhost:8000">>

\* settings.API_V1_STR, config.py line 6.
API_V1_STR == <<"/api/v1">>

RedirectAfterLoginParam == "?redirect_after_login="

QueryParams == {RedirectAfterLoginParam, AccessTokenParam}

\* str.find, counting from 1: 0 when a does not occur in s.
find(s, a) ==
    IF \E i \in DOMAIN s : s[i] = a
    THEN CHOOSE i \in DOMAIN s : s[i] = a /\ \A j \in 1..(i - 1) : s[j] # a
    ELSE 0

\* The part of a URL before its query string.
UrlPath(url) ==
    IF \E i \in DOMAIN url : url[i] \in QueryParams
    THEN SubSeq(url, 1, (CHOOSE i \in DOMAIN url :
                            /\ url[i] \in QueryParams
                            /\ \A j \in 1..(i - 1) : url[j] \notin QueryParams) - 1)
    ELSE url

\* The value of the query parameter param of a URL, None when it has none.
UrlQuery(url, param) ==
    IF find(url, param) = 0 THEN NoneVal
    ELSE SubSeq(url, find(url, param) + 1, Len(url))

\* The route that main.py lines 22-23 and the decorators mount at a URL.
Route(url) ==
    IF UrlPath(url) = BaseUrl \o API_V1_STR \o <<"/auth", "/login">> THEN "login"
    ELSE IF UrlPath(url) = BaseUrl \o API_V1_STR \o <<"/email", "/google/auth">>
    THEN "gmail_auth"
    ELSE "none"

\* gmail_connect sending the client back to a path without the API prefix.
gmail_connect_without_prefix(base_url) ==
    RedirectResponse(
        base_url \o API_V1_STR \o <<"/auth", "/login", RedirectAfterLoginParam>>
            \o base_url \o <<"/email", "/google/auth">>,
        NoCookies, {}, <<>>)

\* Lines 41-45; formatting a URL from the request's base cannot raise, so the
\* except clause of lines 46-51 is never entered.
gmail_connect(base_url) ==
    RedirectResponse(
        base_url \o API_V1_STR \o <<"/auth", "/login", RedirectAfterLoginParam>>
            \o base_url \o API_V1_STR \o <<"/email", "/google/auth">>,
        NoCookies, {}, <<>>)

\* Where a request stands in the chain that gmail_connect starts: hop 1 is
\* gmail_connect, hop 2 the login its redirect names, hop 3 the callback of
\* that login, hop 4 the gmail_auth the callback's redirect names; 0 is a
\* request outside the chain.  token is the access token issued at hop 3.
Chain(hop, token) == [hop |-> hop, token |-> token]

NoChain == Chain(0, NoneVal)

(***************************************************************************)
(* The requests a client sends.                                            *)
(***************************************************************************)
RedirectTargets ==
    {NoneVal, <<>>, <<"http://app/done">>,
     BaseUrl \o API_V1_STR \o <<"/email", "/google/auth">>}

Headers == {NoneVal, <<>>, <<Bearer>>, <<Bearer, "h">>, <<"h">>, <<Bearer, "h", Bearer, "k">>}

TokenParams == {NoneVal, <<>>, <<"t">>}

AccessTokenParams == {NoneVal, <<>>, <<"a">>}

StateParams == {NoneVal, <<>>} \cup {token_urlsafe(n) : n \in 1..MaxIssued}

ErrorParams == {NoneVal, <<>>, <<"access_denied">>}

IdpAnswers ==
    { IdpAnswer(TRUE, 0, FALSE, NoneVal),
      IdpAnswer(FALSE, 403, TRUE, NoneVal),
      IdpAnswer(FALSE, 200, FALSE, NoneVal),
      IdpAnswer(FALSE, 200, TRUE, NoneVal),
      IdpAnswer(FALSE, 200, TRUE, <<"a">>) }

FetchAnswers == {"ok", "raise"}

BearerTokens == {<<"h">>, <<"a">>}

UserinfoAnswers ==
    { UserinfoAnswer(TRUE, 0, FALSE, FALSE),
      UserinfoAnswer(FALSE, 401, TRUE, FALSE),
      UserinfoAnswer(FALSE, 204, FALSE, FALSE),
      UserinfoAnswer(FALSE, 200, FALSE, FALSE),
      UserinfoAnswer(FALSE, 200, TRUE, FALSE),
      UserinfoAnswer(FALSE, 200, TRUE, TRUE) }

\* The provider query parameter of the routes of emails.py.
Providers == {"gmail", "outlook", "yahoo", "Gmail", ""}

\* The values of AUTH0_DOMAIN a deployment is started with, config.py line 10.
Domains == {PlaceholderDomain, "tenant.auth0.com"}

Bodies ==
    { NoBody,
      Dict(FALSE, {}, NoneVal),
      Dict(FALSE, {"other"}, NoneVal),
      Dict(FALSE, {"credentials"}, NoneVal),
      Dict(FALSE, {"credentials"}, <<>>),
      Dict(FALSE, {"credentials"}, <<"response_data">>) }

Faults == {"HttpError", "Exception"}

GmailAnswers ==
    {GmailAnswer("raise", "none", 0, 0, "none")}
    \cup {GmailAnswer("ok", fault, 0, 0, "none") : fault \in Faults}
    \cup {GmailAnswer("ok", "ok", n, 0, "none") : n \in 0..MaxMessages}
    \cup UNION {{GmailAnswer("ok", "ok", n, k, fault) : k \in 1..n, fault \in Faults}
                    : n \in 0..MaxMessages}

\* The provider answers only a request that reaches it, line 150.
Asked(credentials) == ~DictFalsy(credentials) /\ Truthy(DictGet(credentials))

NoRequest ==
    [op |-> "none", client |-> "none", cookies |-> NoCookieJar,
     redirect_after_login |-> NoneVal, authorization |-> NoneVal,
     token |-> NoneVal, access_token |-> NoneVal, state |-> NoneVal,
     error |-> NoneVal, credentials |-> NoBody, idp |-> NoAnswer,
     fetch |-> "none", gmail |-> NotAsked,
     bearer |-> NoneVal, userinfo |-> NoUserinfo, chain |-> NoChain,
     provider |-> "none", expired |-> {}]

\* The request op of client c: it carries the cookies of the jar; expired names
\* the cookies that are missing from it because their deadline has passed.
Request(op, c) ==
    [NoRequest EXCEPT !.op = op, !.client = c, !.cookies = jar[c],
                      !.expired = {n \in CookieNames : ttl[c][n] = Expired}]

NoResponse == JSONResponse(0, <<>>, <<>>)

\* Respond with one session for all clients: every jar takes the cookies.
Respond_every_jar(c, r) ==
    /\ resp' = r
    /\ jar' = [d \in Clients |-> ApplyCookies(jar[d], r)]
    /\ ttl' = [d \in Clients |-> ApplyMaxAge(ttl[d], r)]

\* The response r reaches client c, whose browser applies its cookies.
Respond(c, r) ==
    /\ resp' = r
    /\ jar' = [jar EXCEPT ![c] = ApplyCookies(jar[c], r)]
    /\ ttl' = [ttl EXCEPT ![c] = ApplyMaxAge(ttl[c], r)]

(***************************************************************************)
(* One action per route.                                                   *)
(***************************************************************************)
GmailConnect(c) ==
    /\ req' = [Request("gmail_connect", c) EXCEPT !.chain = Chain(1, NoneVal)]
    /\ Respond(c, gmail_connect(BaseUrl))
    /\ UNCHANGED <<issued, settings, owner>>

Login(c) ==
    \E target \in RedirectTargets :
        LET follows == /\ req.chain.hop = 1
                       /\ resp.kind = "redirect"
                       /\ Route(resp.location) = "login"
                       /\ target = UrlQuery(resp.location, RedirectAfterLoginParam)
        IN
        /\ req' = [Request("login", c) EXCEPT
                      !.redirect_after_login = target,
                      !.chain = IF follows THEN Chain(2, NoneVal) ELSE NoChain]
        /\ Respond(c, login(target))
        /\ UNCHANGED <<issued, settings, owner>>

AuthCallback(c) ==
    \E up \in IdpAnswers :
        LET follows == /\ req.chain.hop = 2
                       /\ resp.location = AuthorizeUrl
                       /\ "redirect_after_login" \in DOMAIN resp.set_cookies
                       /\ jar[c]["redirect_after_login"]
                              = resp.set_cookies["redirect_after_login"]
        IN
        /\ req' = [Request("auth_callback", c) EXCEPT
                      !.idp = up,
                      !.chain = IF follows THEN Chain(3, up.access_token)
                                ELSE NoChain]
        /\ Respond(c, auth_callback(jar[c], up))
        /\ UNCHANGED <<issued, settings, owner>>

GmailAuth(c) ==
    \E authorization \in Headers, token \in TokenParams,
       access_token \in AccessTokenParams :
        LET r == gmail_auth(authorization, token, access_token, jar[c],
                            token_urlsafe(issued + 1))
            generated == "secrets.token_urlsafe" \in Range(r.trace)
            follows == /\ req.chain.hop = 3
                       /\ resp.kind = "redirect"
                       /\ Route(resp.location) = "gmail_auth"
                       /\ authorization = NoneVal
                       /\ token = NoneVal
                       /\ access_token = UrlQuery(resp.location, AccessTokenParam)
        IN  /\ generated => issued < MaxIssued
            /\ req' = [Request("gmail_auth", c) EXCEPT
                          !.authorization = authorization, !.token = token,
                          !.access_token = access_token,
                          !.chain = IF follows THEN Chain(4, req.chain.token)
                                    ELSE NoChain]
            /\ Respond(c, r)
            /\ issued' = IF generated THEN issued + 1 ELSE issued
            /\ UNCHANGED settings
            /\ owner' = IF generated THEN [owner EXCEPT ![issued + 1] = c]
                        ELSE owner

GmailCallback(c) ==
    \E state \in StateParams, error \in ErrorParams, fetch \in FetchAnswers :
        /\ req' = [Request("gmail_callback", c) EXCEPT
                      !.state = state, !.error = error, !.fetch = fetch]
        /\ Respond(c, gmail_callback(state, error, jar[c], fetch))
        /\ UNCHANGED <<issued, settings, owner>>

ListMessages(c) ==
    \E credentials \in Bodies :
    \E gmail \in IF Asked(credentials) THEN GmailAnswers ELSE {NotAsked} :
        /\ req' = [Request("list_messages", c) EXCEPT
                      !.credentials = credentials, !.gmail = gmail]
        /\ Respond(c, list_messages(credentials, gmail))
        /\ UNCHANGED <<issued, settings, owner>>

GetCurrentUserInfo(c) ==
    \E token \in BearerTokens :
    \E up \in IF settings.AUTH0_DOMAIN = PlaceholderDomain
               THEN {NoUserinfo} ELSE UserinfoAnswers :
        /\ req' = [Request("get_current_user_info", c) EXCEPT
                      !.bearer = token, !.userinfo = up]
        /\ Respond(c, get_current_user_info(token, settings.AUTH0_DOMAIN, up))
        /\ UNCHANGED <<issued, settings, owner>>

Logout(c) ==
    /\ req' = Request("logout", c)
    /\ Respond(c, logout)
    /\ UNCHANGED <<issued, settings, owner>>

\* No request has been served and no client holds a cookie.
Init ==
    /\ jar = [c \in Clients |-> NoCookieJar]
    /\ issued = 0
    /\ settings \in [AUTH0_DOMAIN : Domains]
    /\ ttl = [c \in Clients |-> [n \in CookieNames |-> 0]]
    /\ owner = [k \in 1..MaxIssued |-> "nobody"]
    /\ req = NoRequest
    /\ resp = NoResponse

\* The requests of one client, in any order and with any parameters.
Next ==
    \/ GmailConnect("c1")
    \/ Login("c1")
    \/ AuthCallback("c1")
    \/ GmailAuth("c1")
    \/ GmailCallback("c1")
    \/ ListMessages("c1")
    \/ GetCurrentUserInfo("c1")
    \/ Logout("c1")

Spec == Init /\ [][Next]_vars

(***************************************************************************)
(* Time.  Spec and SpecAnyJar are the behaviours in which no cookie lives  *)
(* long enough to expire; SpecExpiry adds the clock, which every browser   *)
(* consults: a cookie whose max_age has passed is no longer sent.          *)
(***************************************************************************)
\* The seconds one step of the clock takes.
TickSeconds == TenMinutes \div TicksPerLifetime

\* The cookie n of client c reaches its deadline within the next step.
Expiring(c, n) == 0 < ttl[c][n] /\ ttl[c][n] <= TickSeconds

\* The lifetimes after one step of the clock.
Elapse(seconds) ==
    IF seconds > TickSeconds THEN seconds - TickSeconds
    ELSE IF seconds > 0 THEN Expired
    ELSE seconds

\* TickSeconds pass without a request: every browser drops the cookies whose
\* max_age, set at auth.py line 37 and email.py lines 105 and 113, has passed.
Tick ==
    /\ \E c \in Clients, n \in CookieNames : ttl[c][n] > 0
    /\ jar' = [c \in Clients |-> [n \in CookieNames |->
                   IF Expiring(c, n) THEN NoneVal ELSE jar[c][n]]]
    /\ ttl' = [c \in Clients |-> [n \in CookieNames |-> Elapse(ttl[c][n])]]
    /\ UNCHANGED <<issued, settings, owner, req, resp>>

\* The request at hand is one a browser sends in the course of a handshake:
\* no parameter is given as the empty string, the identity token comes as the
\* token parameter or from the cookie, the identity provider answers the code
\* exchange with a token or not at all; a message listing carries the
\* credential bundle and is served, or carries nothing.
Plain ==
    /\ req.redirect_after_login \in {NoneVal, <<"http://app/done">>}
    /\ req.authorization = NoneVal
    /\ req.token \in {NoneVal, <<"t">>}
    /\ req.access_token = NoneVal
    /\ req.state # <<>>
    /\ req.error \in {NoneVal, <<"access_denied">>}
    /\ req.idp \in {NoAnswer, IdpAnswer(TRUE, 0, FALSE, NoneVal),
                    IdpAnswer(FALSE, 200, TRUE, <<"a">>)}
    /\ req.credentials \in {NoBody, Dict(FALSE, {"credentials"}, <<"response_data">>)}
    /\ req.gmail \in {NotAsked, GmailAnswer("ok", "ok", 0, 0, "none")}
    /\ req.bearer \in {NoneVal, <<"h">>}
    /\ req.userinfo \in {NoUserinfo, UserinfoAnswer(FALSE, 401, TRUE, FALSE),
                         UserinfoAnswer(FALSE, 200, TRUE, TRUE)}

\* The routes of the server, and the clock.
NextExpiry ==
    \/ GmailConnect("c1") /\ Plain'
    \/ Login("c1") /\ Plain'
    \/ AuthCallback("c1") /\ Plain'
    \/ GmailAuth("c1") /\ Plain'
    \/ GmailCallback("c1") /\ Plain'
    \/ ListMessages("c1") /\ Plain'
    \/ GetCurrentUserInfo("c1") /\ Plain'
    \/ Logout("c1") /\ Plain'
    \/ Tick

\* Time does not stop: the clock steps as long as some cookie has a deadline.
SpecExpiry == Init /\ [][NextExpiry]_vars /\ WF_vars(Tick)

(***************************************************************************)
(* Two clients, their handshakes interleaved in every order.               *)
(***************************************************************************)
NextClients ==
    \/ \E c \in Clients : Login(c) /\ Plain'
    \/ \E c \in Clients : AuthCallback(c) /\ Plain'
    \/ \E c \in Clients : GmailAuth(c) /\ Plain'
    \/ \E c \in Clients : GmailCallback(c) /\ Plain'

SpecClients == Init /\ [][NextClients]_vars

(***************************************************************************)
(* The routes of emails.py, a router that main.py does not mount: they are *)
(* specified apart from the requests the running server answers.           *)
(***************************************************************************)
\* The request op with its provider, bearer token and userinfo answer.
EmailRequest(op, c, provider, token, up) ==
    [Request(op, c) EXCEPT !.provider = provider, !.bearer = token,
                           !.userinfo = up]

\* The userinfo endpoint is asked unless line 24 of core/auth.py returns.
UserinfoAsked ==
    IF settings.AUTH0_DOMAIN = PlaceholderDomain THEN {NoUserinfo}
    ELSE UserinfoAnswers

GetUnreadEmails(c) ==
    \E provider \in Providers, token \in BearerTokens, up \in UserinfoAsked :
        /\ req' = EmailRequest("get_unread_emails", c, provider, token, up)
        /\ Respond(c, get_unread_emails(
                          provider,
                          get_current_user(token, settings.AUTH0_DOMAIN, up)))
        /\ UNCHANGED <<issued, settings, owner>>

SendEmail(c) ==
    \E provider \in Providers, token \in BearerTokens, up \in UserinfoAsked :
        /\ req' = EmailRequest("send_email", c, provider, token, up)
        /\ Respond(c, send_email(
                          provider,
                          get_current_user(token, settings.AUTH0_DOMAIN, up)))
        /\ UNCHANGED <<issued, settings, owner>>

MarkEmailAsRead(c) ==
    \E provider \in Providers, token \in BearerTokens, up \in UserinfoAsked :
        /\ req' = EmailRequest("mark_email_as_read", c, provider, token, up)
        /\ Respond(c, mark_email_as_read(
                          provider,
                          get_current_user(token, settings.AUTH0_DOMAIN, up)))
        /\ UNCHANGED <<issued, settings, owner>>

NextEmails ==
    \/ GetUnreadEmails("c1")
    \/ SendEmail("c1")
    \/ MarkEmailAsRead("c1")

SpecEmails == Init /\ [][NextEmails]_vars

\* The cookies a client may hold that no response of this server has set.
ForgedCookies ==
    [oauth_state : {NoneVal, <<>>, token_urlsafe(1)},
     auth0_token : {NoneVal, <<>>, <<"h">>},
     redirect_after_login : {NoneVal, <<>>}]

\* As Init, but the client's jar holds any cookies at all.
InitAnyJar ==
    /\ jar \in [Clients -> ForgedCookies]
    /\ jar["c2"] = NoCookieJar
    /\ issued = 0
    /\ settings \in [AUTH0_DOMAIN : Domains]
    /\ ttl = [c \in Clients |-> [n \in CookieNames |-> 0]]
    /\ owner = [k \in 1..MaxIssued |-> "nobody"]
    /\ req = NoRequest
    /\ resp = NoResponse

SpecAnyJar == InitAnyJar /\ [][Next]_vars

(***************************************************************************)
(* The properties.  Each is about the request served last (req), the       *)
(* response to it (resp) and the client's jar after it.                    *)
(***************************************************************************)
Client == req.client

Indexes(s, a) == {i \in DOMAIN s : s[i] = a}

Called(r, call) == call \in Range(r.trace)

HandshakeCookies == {"oauth_state", "auth0_token"}

\* C1: every response of gmail_callback deletes the oauth_state and the
\* auth0_token cookie, whatever path produced it, so that after a callback
\* the client's jar holds neither.
C1_CallbackAlwaysClearsCookies ==
    req.op = "gmail_callback" =>
        /\ HandshakeCookies \subseteq resp.del_cookies
        /\ \A n \in HandshakeCookies : jar[Client][n] = NoneVal

StatePresent == Truthy(req.state) /\ Truthy(req.cookies["oauth_state"])

StateEqual == req.state = req.cookies["oauth_state"]

MissingState == <<"error", "Missing state parameter">>

InvalidState == <<"error", "Invalid state parameter">>

\* C2 as stated: gmail_callback answers 200 only when the state parameter and
\* the oauth_state cookie are both non-empty and equal; when either is absent
\* or empty the answer is 400 "Missing state parameter"; when both are present
\* and unequal the answer is 400.
C2_StateDecidesTheAnswer ==
    req.op = "gmail_callback" =>
        /\ resp.status = 200 => StatePresent /\ StateEqual
        /\ ~StatePresent => resp.status = 400 /\ resp.body = MissingState
        /\ StatePresent /\ ~StateEqual => resp.status = 400

\* C2 amended: the same, except that the body "Missing state parameter" (and,
\* for unequal states, "Invalid state parameter") is the answer only when the
\* callback carries no error parameter; with one, the answer is still 400.
C2_StateDecidesTheAnswerUnlessError ==
    req.op = "gmail_callback" =>
        /\ resp.status = 200 => StatePresent /\ StateEqual
        /\ ~StatePresent => resp.status = 400
        /\ ~StatePresent /\ ~Truthy(req.error) => resp.body = MissingState
        /\ StatePresent /\ ~StateEqual => resp.status = 400
        /\ StatePresent /\ ~StateEqual /\ ~Truthy(req.error) => resp.body = InvalidState

\* An empty oauth_state cookie against a state parameter that is present.
C2_Witness ==
    /\ req.op = "gmail_callback"
    /\ ~Truthy(req.error)
    /\ Truthy(req.state)
    /\ req.cookies["oauth_state"] = <<>>
    /\ resp.body = MissingState

\* C3: whenever gmail_callback calls flow.fetch_token, the state parameter and
\* the oauth_state cookie were present and equal, and the state check came
\* before the call.
C3_StateCheckedBeforeExchange ==
    req.op = "gmail_callback" /\ Called(resp, "flow.fetch_token") =>
        /\ StatePresent /\ StateEqual
        /\ \A j \in Indexes(resp.trace, "flow.fetch_token") :
               \E i \in Indexes(resp.trace, "verify_state") : i < j

C3_Witness ==
    /\ req.op = "gmail_callback"
    /\ Called(resp, "flow.fetch_token")
    /\ req.fetch = "raise"

NoTokenSource ==
    /\ req.authorization = NoneVal
    /\ req.token = NoneVal
    /\ req.access_token = NoneVal
    /\ req.cookies["auth0_token"] = NoneVal

\* C4: gmail_auth without an Authorization header, a token parameter, an
\* access_token parameter and an auth0_token cookie answers 401, redirects
\* nowhere, generates no state value and sets no cookie.
C4_NoCredentialNoHandshake ==
    req.op = "gmail_auth" /\ NoTokenSource =>
        /\ resp.status = 401
        /\ resp.kind # "redirect" /\ resp.location = NoneVal
        /\ ~Called(resp, "secrets.token_urlsafe")
        /\ resp.set_cookies = NoCookies
        /\ jar[Client] = req.cookies

C4_Witness ==
    /\ req.op = "gmail_auth"
    /\ NoTokenSource
    /\ resp.status = 401
    /\ issued > 0

\* The Authorization header's token as the claims read it: the header without
\* one leading "Bearer ".
LeadingBearerRemoved(h) == IF startswith(h, Bearer) THEN Tail(h) ELSE h

\* The sources of gmail_auth that hold a token, in the order of precedence.
TokenSources ==
    <<IF req.authorization = NoneVal THEN NoneVal
      ELSE LeadingBearerRemoved(req.authorization),
      req.token, req.access_token, req.cookies["auth0_token"]>>

\* C5: gmail_auth answers 401 only if none of the four sources is present; when
\* one of them holds a token (also when the Authorization header is present
\* with an empty token, as "Bearer ", and a lower source holds one) it
\* redirects to the mail provider and sets both cookies.
C5_AnySourceStartsHandshake ==
    req.op = "gmail_auth" /\ (\E i \in 1..4 : Truthy(TokenSources[i])) =>
        /\ resp.kind = "redirect"
        /\ DOMAIN resp.set_cookies = HandshakeCookies

FirstToken(sources) ==
    IF Truthy(sources[1]) THEN sources[1]
    ELSE IF Truthy(sources[2]) THEN sources[2]
    ELSE IF Truthy(sources[3]) THEN sources[3]
    ELSE sources[4]

\* C6: when gmail_auth redirects, the auth0_token cookie it sets is the token
\* of the first present source in the order Authorization header (one leading
\* "Bearer " removed), token, access_token, auth0_token cookie.
C6_CookieHoldsFirstToken ==
    req.op = "gmail_auth" /\ resp.kind = "redirect" =>
        resp.set_cookies["auth0_token"] = FirstToken(TokenSources)

RedirectCookie == req.cookies["redirect_after_login"]

Succeeded(r) == r.status \in {200, 307}

\* The redirect of auth_callback to target with the issued token appended.
RedirectWithToken(target, up) == target \o <<AccessTokenParam>> \o up.access_token

C7_LoginStoresTarget ==
    req.op = "login" /\ Truthy(req.redirect_after_login) =>
        /\ resp.set_cookies = [redirect_after_login |-> req.redirect_after_login]
        /\ jar[Client]["redirect_after_login"] = req.redirect_after_login

C7_CallbackConsumesTarget ==
    req.op = "auth_callback" /\ Succeeded(resp) /\ Truthy(RedirectCookie) =>
        /\ resp.kind = "redirect"
        /\ resp.location = RedirectWithToken(RedirectCookie, req.idp)
        /\ jar[Client]["redirect_after_login"] = NoneVal

C7_LoginThenCallback ==
    /\ req.op = "login" /\ Truthy(req.redirect_after_login)
    /\ req'.op = "auth_callback" /\ Succeeded(resp')
    => resp'.location = RedirectWithToken(req.redirect_after_login, req'.idp)

C7_SecondCallback ==
    /\ req.op = "auth_callback" /\ resp.kind = "redirect"
    /\ req'.op = "auth_callback" /\ Succeeded(resp')
    => resp'.kind = "json" /\ resp'.body = TokenPayload(req'.idp)

C7_CallbackWithoutTarget ==
    req.op = "auth_callback" /\ Succeeded(resp) /\ ~Truthy(RedirectCookie) =>
        resp.kind = "json" /\ resp.body = TokenPayload(req.idp)

\* C7 as stated: login stores every redirect_after_login value it is given,
\* unchanged, in the cookie of that name; a successful auth_callback that finds
\* the cookie redirects to exactly its value and removes it, and one that does
\* not find it returns the token payload.
C7_EveryTargetRoundTrip ==
    /\ req.op = "login" /\ req.redirect_after_login # NoneVal =>
           /\ resp.set_cookies = [redirect_after_login |-> req.redirect_after_login]
           /\ jar[Client]["redirect_after_login"] = req.redirect_after_login
    /\ C7_CallbackConsumesTarget
    /\ C7_CallbackWithoutTarget

\* C7 amended: the same for every non-empty redirect_after_login value (an
\* empty one is not stored), with the two consequences for consecutive
\* requests: the successful callback right after such a login redirects to the
\* value given to it, and the successful callback right after a redirecting
\* one returns the token payload.
C7_RedirectTargetRoundTrip ==
    /\ [](C7_LoginStoresTarget /\ C7_CallbackConsumesTarget /\ C7_CallbackWithoutTarget)
    /\ [][C7_LoginThenCallback]_vars
    /\ [][C7_SecondCallback]_vars

C7_Witness ==
    /\ req.op = "auth_callback"
    /\ RedirectCookie = <<"http://app/done">>
    /\ resp.location = <<"http://app/done", AccessTokenParam, "a">>
    /\ jar[Client]["redirect_after_login"] = NoneVal

\* The identity provider answered 200 with a JSON token payload.
ExchangeSucceeded == ~req.idp.exception /\ req.idp.status = 200 /\ req.idp.json

C8_RedirectOutcome ==
    /\ resp.kind = "redirect"
    /\ resp.location = RedirectWithToken(RedirectCookie, req.idp)
    /\ resp.del_cookies = {"redirect_after_login"}
    /\ resp.set_cookies = NoCookies

C8_PayloadOutcome ==
    /\ resp.status = 200 /\ resp.kind = "json"
    /\ resp.body = TokenPayload(req.idp)
    /\ resp.set_cookies = NoCookies /\ resp.del_cookies = {}
    /\ jar[Client] = req.cookies

\* C8 as stated: after a successful code exchange auth_callback either
\* redirects to the cookie's target with the access token and deletes the
\* cookie (cookie holding a target), or returns the token payload and touches
\* no cookie (no such cookie); there is no third outcome.
C8_ExactlyTwoOutcomes ==
    req.op = "auth_callback" /\ ExchangeSucceeded =>
        IF Truthy(RedirectCookie) THEN C8_RedirectOutcome ELSE C8_PayloadOutcome

\* C8 amended: the redirect is the outcome when the cookie holds a target and
\* the payload holds an access_token; when the cookie holds a target and the
\* payload holds no access_token, the callback fails with 400 and the cookie
\* stays; without a target the payload is returned and no cookie is touched.
C8_TwoOutcomesAndMissingToken ==
    req.op = "auth_callback" /\ ExchangeSucceeded =>
        /\ Truthy(RedirectCookie) /\ req.idp.access_token # NoneVal
               => C8_RedirectOutcome
        /\ Truthy(RedirectCookie) /\ req.idp.access_token = NoneVal
               => resp.status = 400 /\ jar[Client] = req.cookies
        /\ ~Truthy(RedirectCookie) => C8_PayloadOutcome

C8_Witness ==
    /\ req.op = "auth_callback"
    /\ ExchangeSucceeded
    /\ RedirectCookie = NoneVal
    /\ resp.body = <<"token_data", "a">>

\* What makes auth_callback fail: the provider's status, a transport exception,
\* a body that is not JSON, a payload without the token the redirect needs.
CallbackFailure ==
    \/ req.idp.exception
    \/ req.idp.status # 200
    \/ ~req.idp.json
    \/ Truthy(RedirectCookie) /\ req.idp.access_token = NoneVal

\* C9: every failure of auth_callback is answered with status 400 and an error
\* detail, never with 500, a redirect or a token payload.
C9_EveryFailureIs400 ==
    req.op = "auth_callback" =>
        /\ resp.status \in {200, 307, 400}
        /\ CallbackFailure =>
               /\ resp.status = 400
               /\ resp.kind = "json" /\ resp.location = NoneVal
               /\ Head(resp.body) = "detail"
               /\ resp.set_cookies = NoCookies /\ resp.del_cookies = {}

C9_Witness ==
    /\ req.op = "auth_callback"
    /\ ExchangeSucceeded
    /\ Truthy(RedirectCookie)
    /\ req.idp.access_token = NoneVal
    /\ resp.status = 400

\* C10: list_messages with no body, a null body, or a body whose credentials
\* are missing or empty answers 401 ("Gmail credentials not provided" for the
\* null body) and calls the mail provider for nothing.
C10_MissingCredentialsIs401 ==
    req.op = "list_messages"
    /\ (DictFalsy(req.credentials) \/ ~Truthy(DictGet(req.credentials))) =>
        /\ resp.status = 401
        /\ req.credentials.none
               => resp.body = <<"detail", "Gmail credentials not provided">>
        /\ resp.trace = <<>>


OAuthError == <<"error", "OAuth error">>

\* C11: a gmail_callback with a non-empty error parameter answers 400 "OAuth
\* error" whatever the state parameter and the cookies are: the state is not
\* checked, no verdict on it is in the answer, and flow.fetch_token is not called.
C11_ErrorParameterFirst ==
    req.op = "gmail_callback" /\ Truthy(req.error) =>
        /\ resp.status = 400 /\ resp.body = OAuthError
        /\ ~Called(resp, "verify_state")
        /\ ~Called(resp, "flow.fetch_token")
        /\ resp.trace = <<"error">>

\* An error parameter on a callback whose state and cookies would pass.
C11_Witness ==
    /\ req.op = "gmail_callback"
    /\ Truthy(req.error)
    /\ StatePresent /\ StateEqual
    /\ Truthy(req.cookies["auth0_token"])
    /\ req.fetch = "ok"
    /\ resp.status = 400

\* C12: a gmail_callback without error parameter whose state equals the
\* oauth_state cookie, and whose auth0_token cookie is absent or empty, answers
\* 401 and does not call flow.fetch_token.
C12_NoIdentityCookieIs401 ==
    /\ req.op = "gmail_callback" /\ ~Truthy(req.error)
    /\ StatePresent /\ StateEqual
    /\ ~Truthy(req.cookies["auth0_token"])
    => /\ resp.status = 401
       /\ resp.body = <<"error", "No Auth0 token found">>
       /\ ~Called(resp, "flow.fetch_token")

C12_Witness ==
    /\ req.op = "gmail_callback" /\ ~Truthy(req.error)
    /\ StatePresent /\ StateEqual
    /\ req.cookies["auth0_token"] = <<>>
    /\ resp.status = 401


\* C13: a state value is used once: when a gmail_callback that presented it
\* has been answered, with success or with a failure, the next gmail_callback
\* that presents the same value (no gmail_auth having come in between) does
\* not succeed.
C13_StateUsedOnce ==
    [][ /\ req.op = "gmail_callback" /\ Truthy(req.state)
        /\ req'.op = "gmail_callback" /\ req'.state = req.state
        => resp'.status # 200 ]_vars


\* The state values of the handshakes started before the latest one.
EarlierStates == {token_urlsafe(n) : n \in 1..(issued - 1)}

\* C14: every gmail_auth that redirects generates a state value that no earlier
\* one generated and puts it in the oauth_state cookie in place of the old one;
\* so a gmail_callback that presents the state of an earlier attempt is answered
\* 400 "Invalid state parameter", and only the latest state can succeed.
C14_FreshStateEachAttempt ==
    /\ req.op = "gmail_auth" /\ resp.kind = "redirect" =>
           /\ resp.set_cookies["oauth_state"] = token_urlsafe(issued)
           /\ resp.set_cookies["oauth_state"] \notin EarlierStates
           /\ resp.set_cookies["oauth_state"] # req.cookies["oauth_state"]
           /\ jar[Client]["oauth_state"] = token_urlsafe(issued)
    /\ req.op = "gmail_callback" /\ ~Truthy(req.error)
       /\ req.state \in EarlierStates /\ Truthy(req.cookies["oauth_state"]) =>
           resp.status = 400 /\ resp.body = InvalidState
    /\ req.op = "gmail_callback" /\ resp.status = 200 =>
           req.state = token_urlsafe(issued)

\* The state of the first attempt, presented after the second attempt began.
C14_Witness ==
    /\ req.op = "gmail_callback"
    /\ issued = 2
    /\ req.state = token_urlsafe(1)
    /\ req.cookies["oauth_state"] = token_urlsafe(2)
    /\ resp.body = InvalidState


\* AWAITING_CONSENT --callback(state matches, no error, identity)--> EXCHANGING
EntersExchanging ==
    /\ ~Truthy(req.error)
    /\ StatePresent /\ StateEqual
    /\ Truthy(req.cookies["auth0_token"])

Linked == resp.status = 200 /\ resp.body = CredentialBundle

Failed == resp.status \in {400, 401} /\ resp.kind = "json" /\ resp.body # CredentialBundle

\* C15: a gmail_callback exchanges the code exactly when its state matches, it
\* has no error parameter and the identity cookie is there; the exchange
\* succeeding ends in LINKED (the credential bundle is returned), the exchange
\* failing ends in FAILED with status 400 and no bundle; every callback ends
\* in LINKED or in FAILED, none in a 500.
C15_HandshakeTransitions ==
    req.op = "gmail_callback" =>
        /\ EntersExchanging <=> Called(resp, "flow.fetch_token")
        /\ EntersExchanging /\ req.fetch = "ok" => Linked
        /\ EntersExchanging /\ req.fetch # "ok" => Failed /\ resp.status = 400
        /\ ~EntersExchanging => Failed
        /\ Linked \/ Failed
        /\ resp.status # 500

C15_Witness ==
    /\ req.op = "gmail_callback"
    /\ EntersExchanging
    /\ Linked
    /\ \A n \in HandshakeCookies : jar[Client][n] = NoneVal


\* The provider served every call of the request.
ProviderServes(gmail) == gmail.build = "ok" /\ gmail.list = "ok" /\ gmail.fail_at = 0

\* C16: the server keeps nothing between requests.  The credential bundle of
\* a completed handshake is in the body of that response and nowhere else: no
\* response sets it as a cookie and no client's jar holds it.  list_messages
\* reads and changes no cookie, and it succeeds exactly when its own body
\* carries credentials and the provider serves them, whether or not any
\* handshake was ever begun or completed.
C16_NothingKeptBetweenRequests ==
    /\ \A c \in Clients, n \in CookieNames : jar[c][n] # CredentialBundle
    /\ \A n \in DOMAIN resp.set_cookies : resp.set_cookies[n] # CredentialBundle
    /\ resp.body = CredentialBundle =>
           req.op = "gmail_callback" /\ resp.status = 200
    /\ req.op = "list_messages" =>
        /\ resp.set_cookies = NoCookies /\ resp.del_cookies = {}
        /\ jar[Client] = req.cookies
        /\ resp.status = 200 <=>
               Asked(req.credentials) /\ ProviderServes(req.gmail)
        /\ resp.status = 200 => resp.body = MessageList(req.gmail.n)
        /\ ~Asked(req.credentials) => resp.trace = <<>>

\* A mail operation that succeeds though no handshake was ever begun.
C16_Witness ==
    /\ req.op = "list_messages"
    /\ issued = 0
    /\ jar[Client] = NoCookieJar
    /\ resp.status = 200
    /\ req.gmail.n > 0


\* The userinfo endpoint accepted the presented token.
UserinfoAccepted ==
    /\ Called(resp, "userinfo")
    /\ ~req.userinfo.exception
    /\ req.userinfo.status = 200

\* C17 as stated: get_current_user produces an identity only when the
\* userinfo endpoint accepted the token with a success status, and fails
\* with 401 in every other case.
C17_IdentityOnlyFromUserinfo ==
    req.op = "get_current_user_info" =>
        /\ Called(resp, "current_user") => UserinfoAccepted
        /\ ~UserinfoAccepted => resp.status = 401 /\ ~Called(resp, "current_user")

\* C17, amended: the above holds when AUTH0_DOMAIN is not the placeholder
\* "your-tenant.auth0.com"; when it is, get_current_user produces the fixed
\* mock identity for any bearer token without asking the userinfo endpoint.
C17_IdentityFromUserinfoOrMock ==
    req.op = "get_current_user_info" =>
        IF settings.AUTH0_DOMAIN = PlaceholderDomain
        THEN /\ resp.status = 200
             /\ resp.body = <<"id">> \o MockUser
             /\ resp.trace = <<"current_user">>
        ELSE /\ Called(resp, "userinfo")
             /\ Called(resp, "current_user") => UserinfoAccepted /\ req.userinfo.json
             /\ UserinfoAccepted /\ req.userinfo.json => Called(resp, "current_user")
             /\ ~UserinfoAccepted =>
                    /\ resp.status = 401
                    /\ resp.body = <<"detail", "Could not validate credentials">>
                    /\ ~Called(resp, "current_user")

C17_Witness ==
    /\ req.op = "get_current_user_info"
    /\ settings.AUTH0_DOMAIN # PlaceholderDomain
    /\ req.userinfo.status = 401
    /\ resp.status = 401


\* C18: the chain that GET /email/google/connect starts reaches the mail-link
\* handshake with the identity token.  gmail_connect redirects to login with
\* redirect_after_login naming the route of gmail_auth; the login that follows
\* stores that target; the callback of that login, the client still holding
\* the cookie and the identity provider issuing an access token, redirects to
\* gmail_auth with the token as access_token; and the gmail_auth that follows,
\* without Authorization header or token parameter, answers no 401 but
\* stores exactly that token in auth0_token and a fresh oauth_state, and
\* redirects to the mail provider.
C18_ConnectReachesHandshake ==
    /\ req.op = "gmail_connect" =>
        /\ resp.kind = "redirect"
        /\ Route(resp.location) = "login"
        /\ Route(UrlQuery(resp.location, RedirectAfterLoginParam)) = "gmail_auth"
    /\ req.chain.hop = 2 =>
        /\ resp.location = AuthorizeUrl
        /\ Route(jar[Client]["redirect_after_login"]) = "gmail_auth"
    /\ req.chain.hop = 3 /\ ExchangeSucceeded /\ Truthy(req.idp.access_token) =>
        /\ resp.kind = "redirect"
        /\ Route(resp.location) = "gmail_auth"
        /\ UrlQuery(resp.location, AccessTokenParam) = req.idp.access_token
        /\ req.chain.token = req.idp.access_token
    /\ req.chain.hop = 4 =>
        /\ Truthy(req.chain.token)
        /\ resp.status # 401
        /\ resp.kind = "redirect"
        /\ resp.location = <<GoogleAuthUrl>> \o token_urlsafe(issued)
        /\ jar[Client]["auth0_token"] = req.chain.token
        /\ jar[Client]["oauth_state"] = token_urlsafe(issued)

C18_Witness ==
    /\ req.op = "gmail_auth"
    /\ req.chain.hop = 4
    /\ req.cookies["auth0_token"] # req.chain.token
    /\ jar[Client]["auth0_token"] = req.chain.token


EmailOperations == {"get_unread_emails", "send_email", "mark_email_as_read"}

ServiceOperations == {"get_unread_emails", "send_email", "mark_as_read"}

Unsupported == <<"detail", "Unsupported email provider">>

\* C19: in a route of emails.py that get_current_user let pass, the provider
\* "gmail" is served by the Gmail binding and "outlook" by the Outlook
\* binding; every other provider name is answered 400 "Unsupported email
\* provider", get_email_service being the last call: no operation of any
\* binding is invoked.
C19_ProviderBinding ==
    req.op \in EmailOperations /\ Called(resp, "current_user") =>
        /\ Called(resp, "get_email_service")
        /\ req.provider = "gmail" =>
               Called(resp, "GmailService") /\ ~Called(resp, "OutlookService")
        /\ req.provider = "outlook" =>
               Called(resp, "OutlookService") /\ ~Called(resp, "GmailService")
        /\ req.provider \in {"gmail", "outlook"} => resp.body # Unsupported
        /\ req.provider \notin {"gmail", "outlook"} =>
            /\ resp.status = 400
            /\ resp.body = Unsupported
            /\ resp.trace[Len(resp.trace)] = "get_email_service"
            /\ \A call \in {"GmailService", "OutlookService"} \cup ServiceOperations :
                   ~Called(resp, call)

C19_Witness ==
    /\ req.op = "send_email"
    /\ req.provider = "yahoo"
    /\ Called(resp, "current_user")
    /\ resp.status = 400


\* The mail provider reported a fault to a call of the request: googleapiclient
\* raised HttpError from messages.list or from one messages.get.
ProviderFault ==
    /\ req.gmail.build = "ok"
    /\ \/ req.gmail.list = "HttpError"
       \/ req.gmail.list = "ok" /\ req.gmail.fail_at > 0
                                /\ req.gmail.fail_kind = "HttpError"

\* The calls made to the provider up to the one that reported the fault.
CallsUntilFault ==
    IF req.gmail.list = "HttpError" THEN <<"build", "messages.list">>
    ELSE <<"build", "messages.list">> \o MessagesGet(req.gmail.fail_at)

\* C20: when the mail provider reports a fault to list_messages, while listing
\* or while fetching any one message, the answer is 400 "Gmail API error" and
\* holds no message, not even those fetched before the fault; the call that
\* failed is the last one made and no call is made twice.
C20_ProviderFaultIs400 ==
    req.op = "list_messages" /\ Asked(req.credentials) /\ ProviderFault =>
        /\ resp.status = 400
        /\ resp.body = <<"detail", "Gmail API error">>
        /\ \A n \in 0..req.gmail.n : resp.body # MessageList(n)
        /\ resp.trace = CallsUntilFault
        /\ Cardinality(Indexes(resp.trace, "messages.list")) = 1
        /\ Cardinality(Indexes(resp.trace, "messages.get")) <= req.gmail.n

\* The fault is reported for a message after the first one was fetched.
C20_Witness ==
    /\ req.op = "list_messages"
    /\ ProviderFault
    /\ req.gmail.fail_at > 1
    /\ resp.status = 400


\* The cookie n of the client at hand is in its jar.
Held(n) == jar["c1"][n] # NoneVal

\* C21: an abandoned handshake expires by itself.  Every cookie a response
\* sets (oauth_state, auth0_token, redirect_after_login) is set with max_age
\* 600, so a cookie in the jar always has a deadline of at most 600 seconds;
\* a cookie that is not set again before its deadline leaves the jar; and a
\* callback that arrives after the deadline fails: gmail_callback answers 400
\* (missing state, unless the provider sent an error parameter) without an
\* exchange, auth_callback answers without a redirect.
C21_CookiesSet600 ==
    \A n \in DOMAIN resp.set_cookies :
        n \in DOMAIN resp.max_age /\ resp.max_age[n] = TenMinutes

C21_CookiesHaveDeadline ==
    \A c \in Clients, n \in CookieNames :
        jar[c][n] # NoneVal => 0 < ttl[c][n] /\ ttl[c][n] <= TenMinutes

C21_CallbackAfterExpiryFails ==
    /\ req.op = "gmail_callback" /\ "oauth_state" \in req.expired =>
        /\ resp.status = 400
        /\ ~Truthy(req.error) => resp.body = MissingState
        /\ ~Called(resp, "flow.fetch_token")
    /\ req.op = "auth_callback" /\ "redirect_after_login" \in req.expired =>
        resp.kind # "redirect"

C21_AbandonedHandshakeExpires ==
    /\ [](C21_CookiesSet600 /\ C21_CookiesHaveDeadline /\ C21_CallbackAfterExpiryFails)
    /\ \A n \in CookieNames :
        /\ Held(n) ~> (~Held(n) \/ ttl["c1"][n] < TenMinutes)
        /\ (Held(n) /\ ttl["c1"][n] < TenMinutes)
               ~> (~Held(n) \/ ttl["c1"][n] = TenMinutes)

\* A mail-link callback that presents the state issued to the client after
\* the deadline has removed the client's cookies.
C21_Witness ==
    /\ req.op = "gmail_callback"
    /\ req.expired = {"oauth_state", "auth0_token"}
    /\ issued = 1
    /\ req.state = token_urlsafe(1)
    /\ resp.body = MissingState


\* The answer of a callback as its own request decides it: the parameters,
\* the upstream answer and the cookies the client sent.
OwnRequestDecides ==
    /\ req.op = "gmail_callback" =>
        /\ resp = gmail_callback(req.state, req.error, req.cookies, req.fetch)
        /\ Linked <=> EntersExchanging /\ req.fetch = "ok"
    /\ req.op = "auth_callback" =>
        /\ resp = auth_callback(req.cookies, req.idp)
        /\ resp.kind = "redirect" <=>
               /\ ExchangeSucceeded /\ req.idp.access_token # NoneVal
               /\ Truthy(req.cookies["redirect_after_login"])

\* The request of this step leaves the cookies of every other client alone.
OthersUntouched ==
    \A c \in Clients \ {req'.client} : jar'[c] = jar[c] /\ ttl'[c] = ttl[c]

IssuedToClient == {token_urlsafe(k) : k \in {i \in 1..issued : owner[i] = req.client}}

\* The state values issued to the other clients.
IssuedToOthers == {token_urlsafe(k) : k \in {i \in 1..issued : owner[i] # req.client}}

\* C23: a gmail_callback reaches the token exchange only if a gmail_auth of
\* the same client was answered with the state it presents and that state is
\* the one in the client's oauth_state cookie; a callback that presents a
\* state issued to another client, the client's own cookie not holding it,
\* does not reach the exchange.
C23_CallbackNeedsOwnBeginLink ==
    req.op = "gmail_callback" =>
        /\ Called(resp, "flow.fetch_token") =>
               /\ req.state \in IssuedToClient
               /\ req.cookies["oauth_state"] = req.state
        /\ req.state \in IssuedToOthers /\ req.cookies["oauth_state"] # req.state =>
               ~Called(resp, "flow.fetch_token") /\ resp.status = 400


\* The redirect_after_login cookie of client c leaves the jar in this step.
TargetRemoved(c) ==
    /\ jar[c]["redirect_after_login"] # NoneVal
    /\ jar'[c]["redirect_after_login"] = NoneVal

\* This step is the answer to an auth_callback of client c that redirects
\* to the target the jar held.
RedirectsToTarget(c) ==
    /\ req'.op = "auth_callback" /\ req'.client = c
    /\ resp'.kind = "redirect"
    /\ resp'.location = RedirectWithToken(jar[c]["redirect_after_login"], req'.idp)

TargetHandling ==
    /\ "redirect_after_login" \in DOMAIN resp.set_cookies =>
           /\ req.op = "login" /\ Truthy(req.redirect_after_login)
           /\ resp.set_cookies["redirect_after_login"] = req.redirect_after_login
    /\ "redirect_after_login" \in resp.del_cookies =>
           req.op = "auth_callback" /\ resp.kind = "redirect"
    /\ req.op = "auth_callback" /\ ExchangeSucceeded
          /\ Truthy(req.idp.access_token)
          /\ Truthy(req.cookies["redirect_after_login"]) =>
           /\ resp.location = RedirectWithToken(req.cookies["redirect_after_login"], req.idp)
           /\ "redirect_after_login" \in resp.del_cookies

PresentedToken ==
    auth_token(req.authorization, req.token, req.access_token, req.cookies)

\* C25: the mail-link handshake never asks the Token Verifier.  gmail_auth
\* and gmail_callback make no userinfo request; gmail_auth starts the
\* handshake with whatever non-empty token it finds and stores it unchanged;
\* gmail_callback asks of the auth0_token cookie only that it is not empty,
\* so a matching state and a successful exchange end in LINKED whatever the
\* token is.
C25_HandshakeNeverVerifies ==
    /\ req.op \in {"gmail_connect", "gmail_auth", "gmail_callback"} =>
           ~Called(resp, "userinfo") /\ ~Called(resp, "current_user")
    /\ req.op = "gmail_auth" /\ Truthy(PresentedToken) =>
           /\ resp.kind = "redirect"
           /\ resp.set_cookies["auth0_token"] = PresentedToken
    /\ req.op = "gmail_callback" /\ ~Truthy(req.error)
          /\ StatePresent /\ StateEqual /\ req.fetch = "ok" =>
           (Linked <=> Truthy(req.cookies["auth0_token"]))

\* LINKED is reached in a handshake this client began, with a token that no
\* identity provider was asked about.
C25_Witness ==
    /\ req.op = "gmail_callback"
    /\ Linked
    /\ req.state \in IssuedToClient
    /\ req.cookies["auth0_token"] = <<"h">>

====
